---- MODULE Spec2Model ----
(***************************************************************************)
(* Model of the tile fetcher, the tile cache and the compositor of         *)
(* src/edit.cpp (LoadAndDecodeTile, CompositeMap, g_tileCache,             *)
(* g_cacheMutex).                                                          *)
(*                                                                         *)
(* Pixel coordinates are real numbers (double) in the source.  The model   *)
(* keeps them exactly, in fixed point: a coordinate is an integer count of *)
(* HALF pixels (names ending in 2), so that the .5 fractions produced by   *)
(* finalWidth / 2.0 are representable.  Buffers are sequences of bytes     *)
(* (0..255), indexed from 1 in the model and from 0 in the source.         *)
(***************************************************************************)
EXTENDS Integers, Sequences, FiniteSets, TLC

(***************************************************************************)
(* Bounds of the model.                                                    *)
(***************************************************************************)
\* Tile side length in pixels (256 in main, scaled down).
TileSize == 2
\* Number of threads that may call CompositeMap concurrently.
NumCallers == 2
\* Total number of CompositeMap calls made in one behaviour.
MaxComposites == 2

Callers == 1..NumCallers

(***************************************************************************)
(* Buffers.                                                                *)
(***************************************************************************)
\* std::vector<unsigned char>(n, 255)
WhiteBuffer(n) == [k \in 1..n |-> 255]

\* A fallback tile of 3 bytes per pixel.
BlankTileRGB(tileSize) == WhiteBuffer(tileSize * tileSize * 3)

\* std::vector<unsigned char> pixels(tileSize * tileSize * 4, 255)
BlankTile(tileSize) == WhiteBuffer(tileSize * tileSize * 4)

\* TileKey key{zoom, tileX, tileY}
TileKey(zoom, tileX, tileY) == [z |-> zoom, x |-> tileX, y |-> tileY]

\* The picture the tile server holds for a tile, as stb_image decodes it to
\* RGBA: w * h * 4 bytes, the alpha byte of every pixel 255.  The colour bytes
\* depend on the tile and on the position, and are never 255.
ServerByte(key, k0) ==
    IF k0 % 4 = 3 THEN 255
    ELSE (key.z * 101 + key.x * 57 + key.y * 29 + k0 * 7) % 255

ServerImage(key, w, h) == [k \in 1..(w * h * 4) |-> ServerByte(key, k - 1)]

\* What DownloadURL can hand back: nullptr (curl failed), the tile's PNG, or
\* bytes that are no image (an error page, a truncated body, an empty body).
RawKinds == {"null", "png", "garbage"}

\* A decoder that makes a picture of whatever bytes it is given.
DecodeTileAnyBytes(key, raw, tileSize, w, h) ==
    IF raw = "null" THEN BlankTile(tileSize) ELSE ServerImage(key, w, h)

\* Lines 110-120: the buffer LoadAndDecodeTile builds from the download.
DecodeTile(key, raw, tileSize, w, h) ==
    IF raw = "png" THEN ServerImage(key, w, h) ELSE BlankTile(tileSize)

\* A lookup that never finds the key.
CacheHasNever(cache, key) == FALSE

\* g_tileCache.find(key) != g_tileCache.end()
CacheHas(cache, key) == key \in DOMAIN cache

\* g_tileCache[key] = pixels: an insert that replaces an entry.
EmplaceOverwrite(cache, key, pixels) ==
    [k \in (DOMAIN cache) \cup {key} |-> IF k = key THEN pixels ELSE cache[k]]

\* An insert that leaves failed (all white) tiles out of the cache.
EmplaceSkipBlank(cache, key, pixels) ==
    IF key \in DOMAIN cache \/ \A k \in DOMAIN pixels : pixels[k] = 255
    THEN cache ELSE cache @@ (key :> pixels)

\* An insert into a cache that keeps the latest tile only.
EmplaceEvicting(cache, key, pixels) == key :> pixels

\* An insert that stores nothing.
EmplaceNothing(cache, key, pixels) == cache

\* g_tileCache.emplace(key, pixels): inserts only when the key is absent.
Emplace(cache, key, pixels) ==
    IF CacheHas(cache, key) THEN cache ELSE cache @@ (key :> pixels)

(***************************************************************************)
(* Grid arithmetic of CompositeMap (lines 140-148, 171-172).               *)
(***************************************************************************)
\* floor(a / b) for b > 0
FloorDiv(a, b) == a \div b

\* topLeftX = centerX - finalWidth / 2.0, in half pixels
TopLeft2(center2, finalDim) == center2 - finalDim

\* static_cast<int>(floor(topLeftX / tileSize))
StartTile(topLeft2, tileSize) == FloorDiv(topLeft2, 2 * tileSize)

\* The last tile that begins before the right (bottom) edge of the viewport.
EndTileExclusive(topLeft2, finalDim, tileSize) ==
    FloorDiv(topLeft2 + 2 * finalDim - 1, 2 * tileSize)

\* static_cast<int>(floor((topLeftX + finalWidth) / tileSize))
EndTile(topLeft2, finalDim, tileSize) ==
    FloorDiv(topLeft2 + 2 * finalDim, 2 * tileSize)

\* numTilesX = endTileX - startTileX + 1
NumTiles(topLeft2, finalDim, tileSize) ==
    EndTile(topLeft2, finalDim, tileSize) - StartTile(topLeft2, tileSize) + 1

\* A remainder taken in (0, tileSize] instead: tileSize at exact multiples.
Fmod2Upper(a2, tileSize) ==
    IF a2 % (2 * tileSize) = 0 THEN 2 * tileSize ELSE a2 % (2 * tileSize)

\* fmod(topLeftX, tileSize): the remainder of the division truncated toward
\* zero, which has the sign of topLeftX.  In half pixels.
Fmod2(a2, tileSize) ==
    IF a2 >= 0 THEN a2 % (2 * tileSize) ELSE 0 - ((0 - a2) % (2 * tileSize))

\* Tiles placed one pixel too close to each other.
OffsetOverlapping(t, topLeft2, tileSize) ==
    FloorDiv(2 * t * (tileSize - 1) - Fmod2(topLeft2, tileSize), 2)

\* static_cast<int>(floor(tx * (double)tileSize - fmod(topLeftX, tileSize)))
Offset(t, topLeft2, tileSize) ==
    FloorDiv(2 * t * tileSize - Fmod2(topLeft2, tileSize), 2)

\* The geometry of one request, as the locals of CompositeMap.
Geometry(req) ==
    LET tlx == TopLeft2(req.centerX2, req.finalWidth)
        tly == TopLeft2(req.centerY2, req.finalHeight)
    IN  [topLeftX2  |-> tlx,
         topLeftY2  |-> tly,
         startTileX |-> StartTile(tlx, req.tileSize),
         startTileY |-> StartTile(tly, req.tileSize),
         numTilesX  |-> NumTiles(tlx, req.finalWidth, req.tileSize),
         numTilesY  |-> NumTiles(tly, req.finalHeight, req.tileSize)]

\* int tx = idx % numTilesX (idx counts from 0)
GridTx(idx, numTilesX) == idx % numTilesX

\* int ty = idx / numTilesX
GridTy(idx, numTilesX) == idx \div numTilesX

\* Every task of the grid asking for the first tile of its row.
TileOfIndexFirstColumn(req, idx) ==
    LET g == Geometry(req)
    IN  TileKey(req.zoom, g.startTileX, g.startTileY + GridTy(idx, g.numTilesX))

\* Lines 155-163: the key of the tile task launched as futures[idx].
TileOfIndex(req, idx) ==
    LET g == Geometry(req)
    IN  TileKey(req.zoom,
                g.startTileX + GridTx(idx, g.numTilesX),
                g.startTileY + GridTy(idx, g.numTilesX))

\* A launch loop that stops after the first row of tiles.
NumTasksFirstRow(req) == Geometry(req).numTilesX

\* futures.size() once every task is launched
NumTasks(req) == Geometry(req).numTilesX * Geometry(req).numTilesY

(***************************************************************************)
(* Blitting one tile (lines 171-184).                                      *)
(***************************************************************************)
\* Clipping tests that check the top and left edges only.
InRasterNoUpper(destX, destY, finalWidth, finalHeight) ==
    destY >= 0 /\ destX >= 0

\* The clipping tests of lines 176 and 179.
InRaster(destX, destY, finalWidth, finalHeight) ==
    /\ destY >= 0 /\ destY < finalHeight
    /\ destX >= 0 /\ destX < finalWidth

\* The memcpy calls of one tile: <<dstIdx, srcIdx>> pairs (0-based byte
\* indices), one per source pixel that passes the clipping tests.
TileWrites(offsetX, offsetY, finalWidth, finalHeight, tileSize) ==
    { << ((offsetY + j) * finalWidth + (offsetX + i)) * 4, (j * tileSize + i) * 4 >> :
        <<i, j>> \in { p \in (0..(tileSize - 1)) \X (0..(tileSize - 1)) :
                         InRaster(offsetX + p[1], offsetY + p[2],
                                  finalWidth, finalHeight) } }

\* The writes of the tile at futures[idx] of a request.
WritesOfIndex(req, idx) ==
    LET g == Geometry(req)
    IN  TileWrites(Offset(GridTx(idx, g.numTilesX), g.topLeftX2, req.tileSize),
                   Offset(GridTy(idx, g.numTilesX), g.topLeftY2, req.tileSize),
                   req.finalWidth, req.finalHeight, req.tileSize)

\* The 0-based byte indices of the raster that a set of memcpy calls writes.
DestBytes(writes) == UNION { { w[1] + c : c \in 0..3 } : w \in writes }

\* What a read past the end of a buffer may yield (undefined behaviour): any
\* byte; the model draws it from these.
UndefBytes == {0, 255}

\* pixels[srcIdx + c]; ub is the byte an out-of-bounds read yields.
ReadByte(pixels, k0, ub) ==
    IF k0 + 1 \in DOMAIN pixels THEN pixels[k0 + 1] ELSE ub

\* A blit that appends the tile's pixels to the raster.
BlitAppend(finalImage, pixels, writes, ub) == finalImage \o pixels

\* finalImage after the memcpy calls of one tile.  When two calls write the same
\* byte the later one in loop order (the larger source index) stays.
Blit(finalImage, pixels, writes, ub) ==
    [d \in DOMAIN finalImage |->
        LET hits == { w \in writes : (d - 1) - w[1] \in 0..3 }
        IN  IF hits = {} THEN finalImage[d]
            ELSE LET w == CHOOSE v \in hits : \A u \in hits : u[2] <= v[2]
                 IN  ReadByte(pixels, w[2] + ((d - 1) - w[1]), ub)]

(***************************************************************************)
(* State.                                                                  *)
(***************************************************************************)
VARIABLES
    g_tileCache,    \* the cache: a function from the cached TileKeys to buffers
    g_cacheMutex,   \* the task <<caller, k>> holding the mutex, or NoTask
    call,           \* per caller: the running CompositeMap activation
    futures,        \* per caller: the tile tasks of the activation, in launch order
    netFetches,     \* history: per TileKey, the DownloadURL calls made so far
    failedKeys,     \* history: keys for which a call that failed to fetch returned
    history,        \* history: the CompositeMap calls that returned, in order
    viewport        \* main: the locals of the viewport loop and its position in a frame

vars == <<g_tileCache, g_cacheMutex, call, futures, netFetches, failedKeys, history,
          viewport>>

NoTask == <<0, 0>>

IdleCall == [pc |-> "idle"]

\* A task std::async has just started: LoadAndDecodeTile(x, y, zoom, tileSize)
\* about to take the lock of line 97.  afterFailed records (history) whether a
\* failed call for the key had already returned when this one was made.
NewTask(key, tileSize, afterFailed) ==
    [pc |-> "lock1", key |-> key, tileSize |-> tileSize, raw |-> "none",
     pixels |-> <<>>, ret |-> <<>>, sawCached |-> FALSE, nfetch |-> 0,
     afterFailed |-> afterFailed]

\* The tile tasks that exist: <<caller, position in futures>>.
TaskIds == UNION { { <<c, k>> : k \in DOMAIN futures[c] } : c \in Callers }

Task(t) == futures[t[1]][t[2]]

SetTask(t, rec) == [futures EXCEPT ![t[1]][t[2]] = rec]

\* main's constants.  Latitudes are in ticks of 180 / (tileSize * 2^19)
\* degrees, the latitude step of one pixel at zoom 19 with tileSize = 256, so
\* that every pan step 180 / (tileSize * 2^zoom) is a whole number of ticks;
\* 90 degrees are 2^26 ticks.
MinZoom == 1
MaxZoom == 19
InitialZoom == 16
PanPixels == 50
\* 33.4251 degrees: the initial centre, and "Tempe, AZ".
InitialLat == 24923561
\* 40.7128 degrees.
NewYorkLat == 30357664
\* 37.7749 degrees.
SanFranciscoLat == 28167007
\* 51.5074 degrees.
LondonLat == 38406701

\* Lines 235-246: the locals of main when the loop is entered, after the first
\* CompositeMap call.  pc is the handler the frame runs next; wheel is
\* io.MouseWheel of the frame; invoked holds the centerLat and zoom arguments of
\* the latest CompositeMap call; pans counts the pans made (history).
\* mapCenterLon is left out: it takes part in nothing but the update test of
\* line 307, which the "Update Map" button can make true in any frame.
InitialViewport ==
    [pc |-> "keys", mapCenterLat |-> InitialLat, zoom |-> InitialZoom,
     lastCenterLat |-> InitialLat, lastZoom |-> InitialZoom, wheel |-> 0,
     invoked |-> [centerLat |-> InitialLat, zoom |-> InitialZoom], pans |-> 0]

Init ==
    /\ g_tileCache = << >>
    /\ g_cacheMutex = NoTask
    /\ call = [c \in Callers |-> IdleCall]
    /\ futures = [c \in Callers |-> << >>]
    /\ netFetches = << >>
    /\ failedKeys = {}
    /\ history = << >>
    /\ viewport = InitialViewport

(***************************************************************************)
(* LoadAndDecodeTile, one action per step of a tile task.                  *)
(***************************************************************************)
\* A lock that is granted at once, whoever holds the mutex.
MutexFreeAlways(holder) == TRUE

\* std::lock_guard lock(g_cacheMutex): blocks until the mutex is free.
MutexFree(holder) == holder = NoTask

\* A lock that is never given back.
ReleasedNever(holder) == holder

\* What the destructor of a lock_guard leaves in the mutex.
Released(holder) == NoTask

\* Line 97: take the mutex for the lookup.
LockForFind(t) ==
    /\ Task(t).pc = "lock1"
    /\ MutexFree(g_cacheMutex)
    /\ g_cacheMutex' = t
    /\ futures' = SetTask(t, [Task(t) EXCEPT !.pc = "find"])
    /\ UNCHANGED <<g_tileCache, call, netFetches, failedKeys, history, viewport>>

\* Lines 98-101, hit: return it->second (a copy of the cached buffer).
FindHit(t) ==
    /\ Task(t).pc = "find"
    /\ CacheHas(g_tileCache, Task(t).key)
    /\ futures' = SetTask(t, [Task(t) EXCEPT !.pc = "done",
                                             !.sawCached = TRUE,
                                             !.ret = g_tileCache[Task(t).key]])
    /\ g_cacheMutex' = Released(g_cacheMutex)
    /\ UNCHANGED <<g_tileCache, call, netFetches, failedKeys, history, viewport>>

\* Lines 98-109, miss: release the mutex and call DownloadURL, which blocks.
FindMiss(t) ==
    /\ Task(t).pc = "find"
    /\ ~CacheHas(g_tileCache, Task(t).key)
    /\ futures' = SetTask(t, [Task(t) EXCEPT !.pc = "download",
                                             !.nfetch = @ + 1])
    /\ g_cacheMutex' = Released(g_cacheMutex)
    /\ netFetches' =
          IF Task(t).key \in DOMAIN netFetches
          THEN [netFetches EXCEPT ![Task(t).key] = @ + 1]
          ELSE netFetches @@ (Task(t).key :> 1)
    /\ UNCHANGED <<g_tileCache, call, failedKeys, history, viewport>>

\* A fetcher that starts over when the download failed.
AfterDownloadRetry(raw) == IF raw = "null" THEN "lock1" ELSE "lock2"

\* Where a task continues once DownloadURL has returned and pixels is built:
\* at the lock of line 123, whatever was downloaded.
AfterDownload(raw) == "lock2"

\* Lines 109-120: DownloadURL returns nullptr or the bytes of the response, and
\* pixels is built from them; the decoder reports the image as w by h.
DownloadAndDecode(t, raw, w, h) ==
    /\ Task(t).pc = "download"
    /\ raw \in RawKinds
    /\ futures' = SetTask(t, [Task(t) EXCEPT
            !.pc = AfterDownload(raw),
            !.raw = raw,
            !.pixels = DecodeTile(Task(t).key, raw, Task(t).tileSize, w, h)])
    /\ UNCHANGED <<g_tileCache, g_cacheMutex, call, netFetches, failedKeys, history, viewport>>

\* Line 123: take the mutex for the insert.
LockForEmplace(t) ==
    /\ Task(t).pc = "lock2"
    /\ MutexFree(g_cacheMutex)
    /\ g_cacheMutex' = t
    /\ futures' = SetTask(t, [Task(t) EXCEPT !.pc = "emplace"])
    /\ UNCHANGED <<g_tileCache, call, netFetches, failedKeys, history, viewport>>

\* Lines 124-126: emplace, release the mutex, return pixels.
EmplaceAndReturn(t) ==
    /\ Task(t).pc = "emplace"
    /\ g_tileCache' = Emplace(g_tileCache, Task(t).key, Task(t).pixels)
    /\ g_cacheMutex' = Released(g_cacheMutex)
    /\ futures' = SetTask(t, [Task(t) EXCEPT !.pc = "done", !.ret = Task(t).pixels])
    /\ failedKeys' = IF Task(t).raw = "png" THEN failedKeys
                     ELSE failedKeys \cup {Task(t).key}
    /\ UNCHANGED <<call, netFetches, history, viewport>>

\* The sizes the decoder can report for the tile server's pictures: the server
\* serves tileSize x tileSize tiles.
DecodeDims(tileSize) == { <<tileSize, tileSize>> }

(***************************************************************************)
(* CompositeMap, one action per step of the calling thread.                *)
(***************************************************************************)
\* A viewport request.  centerX2 and centerY2 are the global pixel coordinates
\* of the centre (the values of centerX and centerY after line 138), in half
\* pixels.
Request(finalWidth, finalHeight, centerX2, centerY2, zoom, tileSize) ==
    [finalWidth |-> finalWidth, finalHeight |-> finalHeight,
     centerX2 |-> centerX2, centerY2 |-> centerY2,
     zoom |-> zoom, tileSize |-> tileSize]

\* Lines 135-152: compute the grid and allocate the white raster.
StartComposite(c, req) ==
    /\ call[c].pc = "idle"
    /\ Len(history) + Cardinality({ d \in Callers : call[d].pc # "idle" })
          < MaxComposites
    /\ call' = [call EXCEPT ![c] =
            [pc |-> "launch", req |-> req, idx |-> 0,
             finalImage |-> WhiteBuffer(req.finalWidth * req.finalHeight * 4),
             written |-> {}]]
    /\ futures' = [futures EXCEPT ![c] = << >>]
    /\ UNCHANGED <<g_tileCache, g_cacheMutex, netFetches, failedKeys, history, viewport>>

\* A caller that waits for each tile as soon as it has launched it.
AfterLaunchWaitEach(launched, numTasks) == "get"

\* Where the caller continues once it has launched a task: the launch loop
\* (lines 155-163) runs to its end before the compositing loop begins.
AfterLaunch(launched, numTasks) == IF launched = numTasks THEN "get" ELSE "launch"

\* Lines 155-163: one iteration of the launch loop, futures.emplace_back(
\* std::async(std::launch::async, LoadAndDecodeTile, x, y, zoom, tileSize)).
Launch(c) ==
    /\ call[c].pc = "launch"
    /\ LET req == call[c].req
           idx == Len(futures[c])
           key == TileOfIndex(req, idx)
       IN  /\ futures' = [futures EXCEPT ![c] =
                   Append(@, NewTask(key, req.tileSize, key \in failedKeys))]
           /\ call' = [call EXCEPT ![c].pc = AfterLaunch(idx + 1, NumTasks(req))]
    /\ UNCHANGED <<g_tileCache, g_cacheMutex, netFetches, failedKeys, history, viewport>>

\* A get() that does not wait for the task.
FutureReadyAlways(task) == TRUE

\* futures[idx].get() returns once the task has returned.
FutureReady(task) == task.pc = "done"

\* Lines 166-185: one iteration of the compositing loop: wait for futures[idx]
\* and copy its pixels into finalImage.
GetAndBlit(c, ub) ==
    /\ call[c].pc = "get"
    /\ LET req    == call[c].req
           idx    == call[c].idx
           task   == futures[c][idx + 1]
           writes == WritesOfIndex(req, idx)
       IN  /\ FutureReady(task)
           /\ call' = [call EXCEPT
                   ![c].finalImage = Blit(@, task.ret, writes, ub),
                   ![c].written = @ \cup DestBytes(writes),
                   ![c].idx = idx + 1,
                   ![c].pc = IF idx + 1 = Len(futures[c]) THEN "ret" ELSE "get"]
    /\ UNCHANGED <<g_tileCache, g_cacheMutex, futures, netFetches, failedKeys, history, viewport>>

\* The sum of the DownloadURL calls made by a sequence of tasks.
RECURSIVE SumFetches(_)
SumFetches(tasks) ==
    IF tasks = << >> THEN 0 ELSE Head(tasks).nfetch + SumFetches(Tail(tasks))

\* Line 186: return finalImage; the futures are destroyed.
ReturnComposite(c) ==
    /\ call[c].pc = "ret"
    /\ history' = Append(history,
            [caller |-> c, req |-> call[c].req, raster |-> call[c].finalImage,
             fetches |-> SumFetches(futures[c])])
    /\ call' = [call EXCEPT ![c] = IdleCall]
    /\ futures' = [futures EXCEPT ![c] = << >>]
    /\ UNCHANGED <<g_tileCache, g_cacheMutex, netFetches, failedKeys, viewport>>

(***************************************************************************)
(* Requests and specifications.                                            *)
(***************************************************************************)
\* The zoom level of the requests.
Zoom == 1

\* Requests of one output pixel in the first row of tiles: topLeft = (0, 0), a
\* grid of the single tile (0, 0), and topLeft = (tileSize - 1, 0), a grid of
\* the tiles (0, 0) and (1, 0).
SmallRequests ==
    { Request(1, 1, cx, 1, Zoom, TileSize) : cx \in {1, 2 * TileSize - 1} }

\* Requests of one output pixel whose grid is a single tile: (0, 0) or (1, 0).
SingleTileRequests ==
    { Request(1, 1, cx, 1, Zoom, TileSize) : cx \in {1, 2 * TileSize + 1} }

\* The requests thread c makes in Spec: the first thread any small request, the
\* threads whose calls may overlap it a request for one tile.
RequestsOf(c) == IF c = 1 THEN SmallRequests ELSE SingleTileRequests

\* The calls begun so far.
CallsBegun == Len(history) + Cardinality({ d \in Callers : call[d].pc # "idle" })

TaskNext ==
    \/ \E t \in TaskIds : LockForFind(t)
    \/ \E t \in TaskIds : FindHit(t)
    \/ \E t \in TaskIds : FindMiss(t)
    \/ \E t \in TaskIds : \E raw \in RawKinds :
          \E d \in DecodeDims(Task(t).tileSize) : DownloadAndDecode(t, raw, d[1], d[2])
    \/ \E t \in TaskIds : LockForEmplace(t)
    \/ \E t \in TaskIds : EmplaceAndReturn(t)

CallerNext ==
    \/ \E c \in Callers : Launch(c)
    \/ \E c \in Callers : \E ub \in UndefBytes : GetAndBlit(c, ub)
    \/ \E c \in Callers : ReturnComposite(c)

\* CompositeMap may be called from several threads at once: each thread makes
\* one call, at any time, thread k the k-th call to begin.
Next ==
    \/ \E c \in Callers : \E req \in RequestsOf(c) :
          c = 1 + CallsBegun /\ StartComposite(c, req)
    \/ CallerNext
    \/ TaskNext

Spec == Init /\ [][Next]_vars

\* Requests of the sequential caller: grids of 1 x 1, 2 x 1, 1 x 2 and 2 x 2
\* tiles, at integer, fractional and negative topLeft (topLeftX = -tileSize,
\* -0.5, 0 and tileSize - 1 in the first four); in the last two every tile of
\* the grid covers one pixel of the raster.
SeqRequests ==
    { Request(1, 1, cx, 1, Zoom, TileSize) :
        cx \in {1 - 2 * TileSize, 0, 1, 2 * TileSize - 1} }
    \cup { Request(1, 2, 1, 2 * TileSize - 2, Zoom, TileSize),
           Request(2, 1, 2 * TileSize, 1, Zoom, TileSize),
           Request(2, 2, 2 * TileSize, 2 * TileSize, Zoom, TileSize) }

\* CompositeMap called as main calls it: from one thread, each call returning
\* before the next begins.
NextSeq ==
    \/ \E req \in SeqRequests : StartComposite(1, req)
    \/ CallerNext
    \/ TaskNext

SpecSeq == Init /\ [][NextSeq]_vars

\* The most tile tasks a request of a set launches.
MaxTasks(reqs) ==
    CHOOSE n \in { NumTasks(r) : r \in reqs } : \A r \in reqs : NumTasks(r) <= n

\* The tile tasks the sequential caller can have with SmallRequests.
LiveTasks == {1} \X (1..MaxTasks(SmallRequests))

\* The steps of a tile task that do not wait for the network.
TaskProgress(t) ==
    /\ t \in TaskIds
    /\ \/ LockForFind(t)
       \/ FindHit(t)
       \/ FindMiss(t)
       \/ LockForEmplace(t)
       \/ EmplaceAndReturn(t)

NextLive ==
    \/ \E req \in SmallRequests : StartComposite(1, req)
    \/ CallerNext
    \/ TaskNext

\* The sequential caller under a fair scheduler: a thread that can take a step
\* eventually takes it.  Nothing is assumed about the network: a download may
\* never return, and the caller need not make another call.
LiveSpec ==
    /\ Init /\ [][NextLive]_vars
    /\ WF_vars(Launch(1))
    /\ WF_vars(\E ub \in UndefBytes : GetAndBlit(1, ub))
    /\ WF_vars(ReturnComposite(1))
    /\ \A t \in LiveTasks : WF_vars(TaskProgress(t))

\* The sizes a decoder can report: stbi_load_from_memory decodes whatever
\* picture the bytes hold, a tileSize x tileSize tile, a 1 x 1 picture or a
\* tile of twice the resolution.
AnyDecodeDims(tileSize) ==
    { <<tileSize, tileSize>>, <<1, 1>>, <<2 * tileSize, 2 * tileSize>> }

\* Requests of one output pixel with topLeftX (resp. topLeftY) at every half
\* pixel from -tileSize to tileSize + 0.5, the other coordinate at 0: grids of
\* one tile and of two, in a row and in a column; and requests one pixel wider
\* than a tile with topLeftX at every half pixel of tile 0: grids of two tiles
\* and of three.
EdgeRequests ==
    { Request(1, 1, c2, 1, Zoom, TileSize) : c2 \in (1 - 2 * TileSize)..(2 * TileSize + 2) }
    \cup { Request(1, 1, 1, c2, Zoom, TileSize) :
             c2 \in (1 - 2 * TileSize)..(2 * TileSize + 2) }
    \cup { Request(TileSize + 1, 1, c2, 1, Zoom, TileSize) :
             c2 \in (TileSize + 1)..(3 * TileSize) }

\* The tile tasks when the decoder may report any of AnyDecodeDims.
TaskNextAnyDims ==
    \/ \E t \in TaskIds : LockForFind(t)
    \/ \E t \in TaskIds : FindHit(t)
    \/ \E t \in TaskIds : FindMiss(t)
    \/ \E t \in TaskIds : \E raw \in RawKinds :
          \E d \in AnyDecodeDims(Task(t).tileSize) : DownloadAndDecode(t, raw, d[1], d[2])
    \/ \E t \in TaskIds : LockForEmplace(t)
    \/ \E t \in TaskIds : EmplaceAndReturn(t)

\* A viewport rendered once and then rendered again: the second call repeats
\* the request of the first.
NextEdge ==
    \/ \E req \in EdgeRequests :
          /\ history = << >> \/ (Len(history) = 1 /\ req = history[1].req)
          /\ StartComposite(1, req)
    \/ CallerNext
    \/ TaskNextAnyDims

SpecEdge == Init /\ [][NextEdge]_vars

(***************************************************************************)
(* The sequential CompositeMap of c1.cpp (lines 107-174; map_visual.cpp    *)
(* 115-178 is the same code): no cache, no threads, one lookup per output  *)
(* pixel.                                                                  *)
(***************************************************************************)
\* (int)globalX: the conversion truncates toward zero.  a2 is in half pixels.
TruncToInt(a2) == IF a2 >= 0 THEN a2 \div 2 ELSE 0 - ((0 - a2) \div 2)

\* a % b of C for b > 0: the remainder has the sign of a.
CRem(a, b) == IF a >= 0 THEN a % b ELSE 0 - ((0 - a) % b)

\* c1.cpp 149-154: the locals of the compositing loop for output pixel (i, j).
SeqPixel(req, i, j) ==
    LET g       == Geometry(req)
        globalX == g.topLeftX2 + 2 * i
        globalY == g.topLeftY2 + 2 * j
    IN  [tileCol |-> FloorDiv(globalX, 2 * req.tileSize) - g.startTileX,
         tileRow |-> FloorDiv(globalY, 2 * req.tileSize) - g.startTileY,
         pixelX  |-> CRem(TruncToInt(globalX), req.tileSize),
         pixelY  |-> CRem(TruncToInt(globalY), req.tileSize)]

\* c1.cpp 155: the pixel's tile is one of the grid.
SeqInGrid(req, p) ==
    /\ p.tileRow >= 0 /\ p.tileRow < Geometry(req).numTilesY
    /\ p.tileCol >= 0 /\ p.tileCol < Geometry(req).numTilesX

\* The position in tileImages (row by row, from 1) of the pixel's tile.
SeqTileOf(req, p) == p.tileRow * Geometry(req).numTilesX + p.tileCol + 1

\* c1.cpp 147-164: the output pixels the loop copies from a tile, given the
\* tiles loaded (img is << >> for a null pointer).
SeqCopied(req, tiles) ==
    { q \in (0..(req.finalWidth - 1)) \X (0..(req.finalHeight - 1)) :
        LET p == SeqPixel(req, q[1], q[2])
        IN  SeqInGrid(req, p) /\ tiles[SeqTileOf(req, p)].img # << >> }

\* c1.cpp 146-164: finalImage after the loop; ub is the byte a read outside
\* the tile buffer yields.
SeqRaster(req, tiles, ub) ==
    [d \in 1..(req.finalWidth * req.finalHeight * 4) |->
        LET i == ((d - 1) \div 4) % req.finalWidth
            j == ((d - 1) \div 4) \div req.finalWidth
            p == SeqPixel(req, i, j)
        IN  IF <<i, j>> \in SeqCopied(req, tiles)
            THEN ReadByte(tiles[SeqTileOf(req, p)].img,
                          (p.pixelY * req.tileSize + p.pixelX) * 4 + ((d - 1) % 4), ub)
            ELSE 255]

\* c1.cpp 110-127: compute the grid and allocate tileImages.
SeqStart(c, req) ==
    /\ call[c].pc = "idle"
    /\ history = << >>
    /\ call' = [call EXCEPT ![c] =
            [pc |-> "seqload", req |-> req, tileImages |-> << >>,
             finalImage |-> << >>, copied |-> {}]]
    /\ UNCHANGED <<g_tileCache, g_cacheMutex, futures, netFetches, failedKeys, history,
                   viewport>>

\* c1.cpp 130-143 and LoadTileImage (75-85): one iteration of the loading
\* loop.  DownloadURL returns raw; stbi_load_from_memory decodes the PNG as w
\* by h and returns a null pointer for anything else.
SeqLoadTile(c, raw, w, h) ==
    /\ call[c].pc = "seqload"
    /\ LET req == call[c].req
           key == TileOfIndex(req, Len(call[c].tileImages))
           img == IF raw = "png" THEN ServerImage(key, w, h) ELSE << >>
           loaded == Append(call[c].tileImages, [key |-> key, raw |-> raw, img |-> img])
       IN  /\ call' = [call EXCEPT
                   ![c].tileImages = loaded,
                   ![c].pc = IF Len(loaded) = NumTasks(req) THEN "seqcomposite"
                             ELSE "seqload"]
           /\ netFetches' =
                 IF key \in DOMAIN netFetches
                 THEN [netFetches EXCEPT ![key] = @ + 1]
                 ELSE netFetches @@ (key :> 1)
    /\ UNCHANGED <<g_tileCache, g_cacheMutex, futures, failedKeys, history, viewport>>

\* c1.cpp 146-164: the compositing loop.
SeqComposite(c, ub) ==
    /\ call[c].pc = "seqcomposite"
    /\ call' = [call EXCEPT
            ![c].pc = "seqret",
            ![c].finalImage = SeqRaster(call[c].req, call[c].tileImages, ub),
            ![c].copied = SeqCopied(call[c].req, call[c].tileImages)]
    /\ UNCHANGED <<g_tileCache, g_cacheMutex, futures, netFetches, failedKeys, history,
                   viewport>>

\* c1.cpp 166-173: free the tiles and return finalImage.
SeqReturn(c) ==
    /\ call[c].pc = "seqret"
    /\ history' = Append(history,
            [caller |-> c, req |-> call[c].req, raster |-> call[c].finalImage,
             fetches |-> Len(call[c].tileImages), tiles |-> call[c].tileImages])
    /\ call' = [call EXCEPT ![c] = IdleCall]
    /\ UNCHANGED <<g_tileCache, g_cacheMutex, futures, netFetches, failedKeys, viewport>>

\* The steps of the tile tasks of a single call that starts with an empty
\* cache: every tile is looked up once, and no lookup finds it.
TaskNextEmptyCache ==
    \/ \E t \in TaskIds : LockForFind(t)
    \/ \E t \in TaskIds : FindMiss(t)
    \/ \E t \in TaskIds : \E raw \in RawKinds :
          \E d \in DecodeDims(Task(t).tileSize) : DownloadAndDecode(t, raw, d[1], d[2])
    \/ \E t \in TaskIds : LockForEmplace(t)
    \/ \E t \in TaskIds : EmplaceAndReturn(t)

\* A viewport rendered by the sequential CompositeMap and then, for the same
\* request and with an empty cache, by the parallel one.
NextVariants ==
    \/ \E req \in EdgeRequests : SeqStart(1, req)
    \/ /\ call[1].pc = "seqload"
       /\ \E raw \in RawKinds : \E d \in DecodeDims(call[1].req.tileSize) :
             SeqLoadTile(1, raw, d[1], d[2])
    \/ \E ub \in UndefBytes : SeqComposite(1, ub)
    \/ SeqReturn(1)
    \/ Len(history) = 1 /\ StartComposite(1, history[1].req)
    \/ CallerNext
    \/ TaskNextEmptyCache

SpecVariants == Init /\ [][NextVariants]_vars

(***************************************************************************)
(* main: the viewport loop, one action per handler of a frame.  A handler  *)
(* that calls CompositeMap records the arguments of the call; the raster   *)
(* it gets back only replaces the texture on screen.                       *)
(***************************************************************************)
\* The pans (arrow-key and drag moves of the latitude) a behaviour makes.
MaxPans == 1

\* The latitude of one pixel at a zoom level, 180.0 / (tileSize * (1 << zoom)).
TicksPerPixel(zoom) == 2 ^ (MaxZoom - zoom)

\* A clamp that lets every value through.
ClampNone(v, lo, hi) == v

\* std::clamp(v, lo, hi)
Clamp(v, lo, hi) == IF v < lo THEN lo ELSE IF v > hi THEN hi ELSE v

\* CompositeMap(finalWidth, finalHeight, mapCenterLat, mapCenterLon, zoom, tileSize)
Invoke(centerLat, zoom) == [centerLat |-> centerLat, zoom |-> zoom]

\* Lines 252-265: arrow-key panning.  up and down are the states of the UP and
\* DOWN keys, side that of LEFT or RIGHT.
ArrowKeys(up, down, side) ==
    /\ viewport.pc = "keys"
    /\ (up # down) => viewport.pans < MaxPans
    /\ LET latStep == PanPixels * TicksPerPixel(viewport.zoom)
           lat     == viewport.mapCenterLat + (IF up THEN latStep ELSE 0)
                                            - (IF down THEN latStep ELSE 0)
           moved   == up \/ down \/ side
       IN  viewport' = [viewport EXCEPT
               !.pc = "drag",
               !.mapCenterLat = lat,
               !.pans = IF up # down THEN @ + 1 ELSE @,
               !.invoked = IF moved THEN Invoke(lat, viewport.zoom) ELSE @]
    /\ UNCHANGED <<g_tileCache, g_cacheMutex, call, futures, netFetches, failedKeys, history>>

\* The vertical drag deltas of a frame, in pixels.
DragDeltas == {0 - PanPixels, 0, PanPixels}

\* Lines 278-288: dragging the map with the left button; dragY is drag.y.
DragMap(dragging, dragY) ==
    /\ viewport.pc = "drag"
    /\ (dragging /\ dragY # 0) => viewport.pans < MaxPans
    /\ LET dLat == (0 - dragY) * TicksPerPixel(viewport.zoom)
           lat  == viewport.mapCenterLat + dLat
       IN  viewport' = IF dragging
                       THEN [viewport EXCEPT
                               !.pc = "wheel",
                               !.mapCenterLat = lat,
                               !.pans = IF dragY # 0 THEN @ + 1 ELSE @,
                               !.invoked = Invoke(lat, viewport.zoom)]
                       ELSE [viewport EXCEPT !.pc = "wheel"]
    /\ UNCHANGED <<g_tileCache, g_cacheMutex, call, futures, netFetches, failedKeys, history>>

\* Lines 290-296: the mouse wheel; wheel is io.MouseWheel.
WheelZoom(wheel) ==
    /\ viewport.pc = "wheel"
    /\ LET z == Clamp(viewport.zoom + (IF wheel > 0 THEN 1 ELSE 0 - 1), MinZoom, MaxZoom)
       IN  viewport' = IF wheel # 0
                       THEN [viewport EXCEPT
                               !.pc = "controls",
                               !.wheel = wheel,
                               !.zoom = z,
                               !.invoked = Invoke(viewport.mapCenterLat, z)]
                       ELSE [viewport EXCEPT !.pc = "controls", !.wheel = 0]
    /\ UNCHANGED <<g_tileCache, g_cacheMutex, call, futures, netFetches, failedKeys, history>>

\* The latitudes typed into the "Center Latitude" field: 0 and 90 degrees.
TypedLats == {0, 2 ^ 26}

\* Lines 303-314: the controls window.  typed is << >> or the latitude entered
\* into InputDouble, slid is << >> or the value the zoom slider is dragged to
\* (SliderInt with the range 1..19), button is the "Update Map" button.  A
\* latitude that differs by a tick differs by more than 1e-6 degrees.
MapControls(typed, slid, button) ==
    /\ viewport.pc = "controls"
    /\ LET lat == IF typed = << >> THEN viewport.mapCenterLat ELSE typed[1]
           z   == IF slid = << >> THEN viewport.zoom ELSE slid[1]
       IN  viewport' =
               IF button \/ lat # viewport.lastCenterLat \/ z # viewport.lastZoom
               THEN [viewport EXCEPT
                       !.pc = "saved",
                       !.mapCenterLat = lat,
                       !.zoom = z,
                       !.lastCenterLat = lat,
                       !.lastZoom = z,
                       !.invoked = Invoke(lat, z)]
               ELSE [viewport EXCEPT !.pc = "saved", !.mapCenterLat = lat, !.zoom = z]
    /\ UNCHANGED <<g_tileCache, g_cacheMutex, call, futures, netFetches, failedKeys, history>>

\* Lines 358-364: the latitudes of the saved locations.
SavedLats == {InitialLat, NewYorkLat, SanFranciscoLat, LondonLat}

\* Lines 350-392: the saved-locations table and the end of the frame.
\* selected is << >> or the latitude of the row whose "Select" was pressed.
SavedLocations(selected) ==
    /\ viewport.pc = "saved"
    /\ viewport' =
           IF selected = << >>
           THEN [viewport EXCEPT !.pc = "keys", !.wheel = 0]
           ELSE [viewport EXCEPT
                   !.pc = "keys",
                   !.wheel = 0,
                   !.mapCenterLat = selected[1],
                   !.invoked = Invoke(selected[1], viewport.zoom)]
    /\ UNCHANGED <<g_tileCache, g_cacheMutex, call, futures, netFetches, failedKeys, history>>

\* io.MouseWheel of a frame: scrolled down, not scrolled, scrolled up.
WheelSteps == {0 - 1, 0, 1}

\* An input that may be absent.
Optional(S) == { << >> } \cup { <<v>> : v \in S }

NextMain ==
    \/ \E up \in BOOLEAN, down \in BOOLEAN, side \in BOOLEAN : ArrowKeys(up, down, side)
    \/ \E dragging \in BOOLEAN, dragY \in DragDeltas : DragMap(dragging, dragY)
    \/ \E wheel \in WheelSteps : WheelZoom(wheel)
    \/ \E typed \in Optional(TypedLats), slid \in Optional(MinZoom..MaxZoom),
          button \in BOOLEAN : MapControls(typed, slid, button)
    \/ \E selected \in Optional(SavedLats) : SavedLocations(selected)

SpecMain == Init /\ [][NextMain]_vars

\* The frames in which only the mouse wheel, the zoom slider and the "Update
\* Map" button are used.
NextWheel ==
    \/ ArrowKeys(FALSE, FALSE, FALSE)
    \/ DragMap(FALSE, 0)
    \/ \E wheel \in WheelSteps : WheelZoom(wheel)
    \/ \E slid \in Optional(MinZoom..MaxZoom), button \in BOOLEAN :
          MapControls(<< >>, slid, button)
    \/ SavedLocations(<< >>)

SpecWheel == Init /\ [][NextWheel]_vars

(***************************************************************************)
(* map_visual.cpp: the loop of main with SmoothUpdateMap.  The handlers    *)
(* only move the targets; SmoothUpdateMap, called once per frame, moves    *)
(* the view toward them.  Here latitudes and longitudes are in units of a  *)
(* sixteenth of a tick, 180 / 2^31 degrees.                                *)
(***************************************************************************)
\* Units per tick.
UnitsPerTick == 16

\* 1e-6 degrees in units, rounded down: fabs(d) > 1e-6 is |d| > 11 units.
LerpEpsilon == 11

\* 1 / t for the interpolation factor t = 0.2.
LerpDivisor == 5

\* The target changes (drags, wheel steps, typed values, slider moves, saved
\* locations) a behaviour makes.
MaxRetargets == 1

\* 0.03 degrees in units: "Villas On Apach" lies that far east of the initial
\* centre.
VillasLonOffset == 357914

\* 33.4210 degrees, the latitude of "Villas On Apach", in ticks.
VillasLat == 24920504

\* Lines 268-280: the locals of main when the loop is entered, after the first
\* CompositeMap call.  Longitudes are counted from the initial one, -111.94
\* degrees.  called tells whether the latest SmoothUpdateMap call
\* called CompositeMap; retargets counts the target changes (history).
InitialSmooth ==
    [pc |-> "drag",
     mapCenterLat |-> InitialLat * UnitsPerTick, mapCenterLon |-> 0,
     zoom |-> InitialZoom,
     targetLat |-> InitialLat * UnitsPerTick, targetLon |-> 0,
     targetZoom |-> InitialZoom,
     called |-> FALSE, retargets |-> 0]

InitSmooth ==
    /\ g_tileCache = << >>
    /\ g_cacheMutex = NoTask
    /\ call = [c \in Callers |-> IdleCall]
    /\ futures = [c \in Callers |-> << >>]
    /\ netFetches = << >>
    /\ failedKeys = {}
    /\ history = << >>
    /\ viewport = InitialSmooth

\* A handler that changed a target has used one of the target changes.
Retargeted(v) ==
    IF v.targetLat # viewport.targetLat \/ v.targetLon # viewport.targetLon
          \/ v.targetZoom # viewport.targetZoom
    THEN [v EXCEPT !.retargets = @ + 1]
    ELSE v

\* A handler's step: the view it leaves, if the target changes allow it.
Handle(v) ==
    /\ Retargeted(v).retargets <= MaxRetargets
    /\ viewport' = Retargeted(v)
    /\ UNCHANGED <<g_tileCache, g_cacheMutex, call, futures, netFetches, failedKeys, history>>

\* Lines 308-316: dragging moves the targets; dragX and dragY are the drag
\* delta in pixels.
SmoothDrag(dragging, dragX, dragY) ==
    /\ viewport.pc = "drag"
    /\ Handle(IF dragging
              THEN [viewport EXCEPT
                      !.pc = "wheel",
                      !.targetLon = @ + 2 * dragX * UnitsPerTick * TicksPerPixel(viewport.zoom),
                      !.targetLat = @ - dragY * UnitsPerTick * TicksPerPixel(viewport.zoom)]
              ELSE [viewport EXCEPT !.pc = "wheel"])

\* Lines 321-323: targetZoom += step; if (< 1) = 1; if (> 19) = 19.
StepClamp(v, lo, hi) == IF v < lo THEN lo ELSE IF v > hi THEN hi ELSE v

\* Lines 319-324: the mouse wheel moves targetZoom.
SmoothWheel(wheel) ==
    /\ viewport.pc = "wheel"
    /\ Handle(IF wheel # 0
              THEN [viewport EXCEPT
                      !.pc = "controls",
                      !.targetZoom = StepClamp(@ + (IF wheel > 0 THEN 1 ELSE 0 - 1),
                                               MinZoom, MaxZoom)]
              ELSE [viewport EXCEPT !.pc = "controls"])

\* The changes made with the "+" and "-" buttons of an InputDouble field whose
\* step is 0.0001 degrees (1193 units), or none.
InputSteps == {0 - 1193, 0, 1193}

\* The values the zoom slider is dragged to: its two ends.
SliderStops == {MinZoom, MaxZoom}

\* Lines 336-342: the controls window; latStep is the change made in the
\* "Center Lat" field, slid is << >> or the value the slider is dragged to.
\* (The "Center Lon" field is the same widget on targetLon; the longitude is
\* moved by the drags and the saved locations here.)
SmoothControls(latStep, slid) ==
    /\ viewport.pc = "controls"
    /\ Handle([viewport EXCEPT
                  !.pc = "saved",
                  !.targetLat = @ + latStep,
                  !.targetZoom = IF slid = << >> THEN @ ELSE slid[1]])

\* Lines 284-291: the saved locations selected, as <<latitude, longitude>> in
\* units: "Tempe, AZ", where the view starts, and "Villas On Apach".
SmoothSaved ==
    { <<InitialLat * UnitsPerTick, 0>>, <<VillasLat * UnitsPerTick, VillasLonOffset>> }

\* Lines 345-366: the saved-locations table; selected is << >> or the location
\* whose "Select" was pressed.
SmoothSelect(selected) ==
    /\ viewport.pc = "saved"
    /\ Handle(IF selected = << >>
              THEN [viewport EXCEPT !.pc = "smooth"]
              ELSE [viewport EXCEPT
                      !.pc = "smooth",
                      !.targetLat = selected[1][1],
                      !.targetLon = selected[1][2]])

\* (target - current) * t, rounded toward zero to the unit.
LerpDelta(current, target) ==
    IF target >= current THEN (target - current) \div LerpDivisor
    ELSE 0 - ((current - target) \div LerpDivisor)

\* Lines 217-220 (221-225): the coordinate after the interpolation step.
Lerp(current, target) ==
    IF target - current > LerpEpsilon \/ current - target > LerpEpsilon
    THEN current + LerpDelta(current, target)
    ELSE current

\* A zoom that jumps to the target.
StepZoomJump(zoom, targetZoom) == targetZoom

\* Lines 227-234: the zoom after one step toward targetZoom.
StepZoom(zoom, targetZoom) ==
    IF zoom < targetZoom THEN zoom + 1
    ELSE IF zoom > targetZoom THEN zoom - 1 ELSE zoom

\* Lines 208-242 and 368-373: SmoothUpdateMap, called at the end of the frame.
SmoothUpdateMap ==
    /\ viewport.pc = "smooth"
    /\ LET movedLat  == viewport.targetLat - viewport.mapCenterLat > LerpEpsilon
                          \/ viewport.mapCenterLat - viewport.targetLat > LerpEpsilon
           movedLon  == viewport.targetLon - viewport.mapCenterLon > LerpEpsilon
                          \/ viewport.mapCenterLon - viewport.targetLon > LerpEpsilon
           movedZoom == viewport.zoom # viewport.targetZoom
       IN  viewport' = [viewport EXCEPT
               !.pc = "drag",
               !.mapCenterLat = Lerp(@, viewport.targetLat),
               !.mapCenterLon = Lerp(@, viewport.targetLon),
               !.zoom = StepZoom(@, viewport.targetZoom),
               !.called = movedLat \/ movedLon \/ movedZoom]
    /\ UNCHANGED <<g_tileCache, g_cacheMutex, call, futures, netFetches, failedKeys, history>>

\* The drag deltas <<drag.x, drag.y>> of a frame, in pixels.
SmoothDragDeltas == { <<1, 0>>, <<0, 1>> }

NextSmooth ==
    \/ \E dragging \in BOOLEAN, drag \in SmoothDragDeltas :
          SmoothDrag(dragging, drag[1], drag[2])
    \/ \E wheel \in WheelSteps : SmoothWheel(wheel)
    \/ \E latStep \in InputSteps, slid \in Optional(SliderStops) :
          SmoothControls(latStep, slid)
    \/ \E selected \in Optional(SmoothSaved) : SmoothSelect(selected)
    \/ SmoothUpdateMap

\* The loop runs frame after frame: the handler or the update that is next is
\* eventually executed.
SpecSmooth == InitSmooth /\ [][NextSmooth]_vars /\ WF_vars(NextSmooth)

(***************************************************************************)
(* The centre projection of CompositeMap, lines 135-138, at tileSize 256.  *)
(***************************************************************************)
\* The latitudes projected: the whole degrees of (-85, 85).
LatDegrees == (0 - 84)..84

\* The longitudes projected, in units of 45 degrees: -180, -135, ..., 135.
LonOctants == (0 - 4)..3

\* floor(4096 * (1 - log(tan(latRad) + 1.0 / cos(latRad)) / M_PI) / 2.0) at the
\* latitudes -84, -83, ..., 84 degrees, evaluated in double arithmetic.
MercatorTable ==
    <<
       3970, 3869, 3782, 3705, 3636, 3573, 3516, 3464, 3415, 3369, 3327, 3287, 3249,
       3213, 3179, 3146, 3115, 3086, 3057, 3030, 3003, 2978, 2953, 2929, 2906, 2884,
       2862, 2841, 2820, 2800, 2780, 2761, 2743, 2724, 2706, 2689, 2672, 2655, 2638,
       2622, 2606, 2590, 2575, 2560, 2545, 2530, 2516, 2501, 2487, 2473, 2459, 2446,
       2432, 2419, 2406, 2393, 2380, 2367, 2354, 2341, 2329, 2317, 2304, 2292, 2280,
       2268, 2256, 2244, 2232, 2220, 2208, 2197, 2185, 2173, 2162, 2150, 2139, 2127,
       2116, 2104, 2093, 2082, 2070, 2059, 2048, 2036, 2025, 2013, 2002, 1991, 1979,
       1968, 1956, 1945, 1933, 1922, 1910, 1898, 1887, 1875, 1863, 1851, 1839, 1827,
       1815, 1803, 1791, 1778, 1766, 1754, 1741, 1728, 1715, 1702, 1689, 1676, 1663,
       1649, 1636, 1622, 1608, 1594, 1579, 1565, 1550, 1535, 1520, 1505, 1489, 1473,
       1457, 1440, 1423, 1406, 1389, 1371, 1352, 1334, 1315, 1295, 1275, 1254, 1233,
       1211, 1189, 1166, 1142, 1117, 1092, 1065, 1038, 1009, 980, 949, 916, 882,
       846, 808, 768, 726, 680, 631, 579, 522, 459, 390, 313, 226, 125
    >>

\* centerX in pixels: (centerLon + 180.0) / 360.0 * n * tileSize, for
\* centerLon = 45 * lon45 degrees.
CenterX(lon45, zoom) == (lon45 + 4) * 2 ^ (zoom + 5)

\* A projection with south up.
CenterY16SouthUp(lat, zoom) == (4096 - MercatorTable[lat + 85]) * 2 ^ zoom

\* centerY in sixteenths of a pixel:
\* (1 - log(tan(latRad) + 1.0 / cos(latRad)) / M_PI) / 2.0 * n * tileSize.
CenterY16(lat, zoom) == MercatorTable[lat + 85] * 2 ^ zoom

\* A call entered with a centre and a zoom, before line 135.
Entered(lat, lon45, zoom) ==
    [pc |-> "entry", centerLat |-> lat, centerLon |-> lon45, zoom |-> zoom]

\* Two CompositeMap calls at the same zoom, the second centred at the same or
\* the next latitude and at the same or the next longitude.
InitProj ==
    /\ g_tileCache = << >>
    /\ g_cacheMutex = NoTask
    /\ futures = [c \in Callers |-> << >>]
    /\ netFetches = << >>
    /\ failedKeys = {}
    /\ history = << >>
    /\ viewport = InitialViewport
    /\ \E lat \in LatDegrees, lon45 \in LonOctants, zoom \in MinZoom..MaxZoom :
       \E lat2 \in {lat, lat + 1} \cap LatDegrees, lon2 \in {lon45, lon45 + 1} \cap LonOctants :
          call = [c \in Callers |->
                    IF c = 1 THEN Entered(lat, lon45, zoom)
                    ELSE IF c = 2 THEN Entered(lat2, lon2, zoom)
                    ELSE IdleCall]

\* Lines 135-138: the call computes centerX and centerY.
ProjectCenter(c) ==
    /\ call[c].pc = "entry"
    /\ call' = [call EXCEPT ![c] =
            [pc |-> "projected", centerLat |-> call[c].centerLat,
             centerLon |-> call[c].centerLon, zoom |-> call[c].zoom,
             centerX |-> CenterX(call[c].centerLon, call[c].zoom),
             centerY |-> CenterY16(call[c].centerLat, call[c].zoom)]]
    /\ UNCHANGED <<g_tileCache, g_cacheMutex, futures, netFetches, failedKeys, history,
                   viewport>>

NextProj == \E c \in Callers : ProjectCenter(c)

SpecProj == InitProj /\ [][NextProj]_vars

(***************************************************************************)
(* Properties.                                                             *)
(***************************************************************************)
\* A task is inside DownloadURL / stbi_load_from_memory (lines 109-120).
InFlight(t) == Task(t).pc = "download"

Returned(t) == Task(t).pc = "done"

\* The call of caller c has computed its grid and allocated its raster (lines
\* 135-152) and has launched no tile task yet.
GridComputed(c) == call[c].pc = "launch" /\ futures[c] = << >>

\* A buffer of n bytes, all 255.
IsWhite(buf, n) == Len(buf) = n /\ \A k \in 1..n : buf[k] = 255

\* C1 as stated: in every interleaving, at most one fetch-and-decode is in
\* flight for a given TileId at any time.
C1_AtMostOneInFlight ==
    \A t1, t2 \in TaskIds :
        (InFlight(t1) /\ InFlight(t2) /\ Task(t1).key = Task(t2).key) => t1 = t2

\* C1, amended: among the tile tasks of one CompositeMap invocation at most one
\* fetch-and-decode is in flight for a given TileId; two fetches in flight for
\* the same TileId always belong to different (overlapping) invocations.
C1_AtMostOneInFlightPerCall ==
    \A t1, t2 \in TaskIds :
        (InFlight(t1) /\ InFlight(t2) /\ Task(t1).key = Task(t2).key /\ t1[1] = t2[1])
            => t1 = t2

\* One invocation has two fetches in flight (for different tiles) while an
\* overlapping invocation has one in flight for one of the same tiles.
C1_Witness ==
    \E t1, t2, t3 \in TaskIds :
        /\ t1[1] = t2[1] /\ t1 # t2 /\ t3[1] # t1[1]
        /\ InFlight(t1) /\ InFlight(t2) /\ InFlight(t3)
        /\ Task(t3).key = Task(t1).key

\* C2: concurrent calls for the same TileId make a bounded number of network
\* fetches (at most one per concurrent caller) and all return pixel-identical
\* buffers, whatever the outcome of each fetch.
C2_ConcurrentCallsIdentical ==
    /\ \A key \in DOMAIN netFetches : netFetches[key] <= NumCallers
    /\ \A t1, t2 \in TaskIds :
          (Returned(t1) /\ Returned(t2) /\ Task(t1).key = Task(t2).key)
              => Task(t1).ret = Task(t2).ret

\* C3: an entry of the cache never changes and is never removed, in any step
\* (a racing second insert of the same id included).
C3_CacheEntriesImmutable ==
    [][\A key \in DOMAIN g_tileCache :
          /\ key \in DOMAIN g_tileCache'
          /\ g_tileCache'[key] = g_tileCache[key]]_vars

\* A call missed, fetched, lost the race for the insert and holds a buffer that
\* differs from the cached one: its emplace changed nothing.
C3_Witness ==
    \E t \in TaskIds :
        /\ Returned(t) /\ ~Task(t).sawCached
        /\ Task(t).ret # g_tileCache[Task(t).key]

\* C4: a call whose download failed (nullptr) or whose bytes did not decode
\* returns tileSize * tileSize * 4 bytes, all 255.
C4_FailureReturnsWhiteTile ==
    \A t \in TaskIds :
        (Returned(t) /\ Task(t).raw \in {"null", "garbage"})
            => IsWhite(Task(t).ret, Task(t).tileSize * Task(t).tileSize * 4)

\* One call returned after a failed download and another after a failed decode.
C4_Witness ==
    \E t1, t2 \in TaskIds :
        /\ Returned(t1) /\ Task(t1).raw = "null"
        /\ Returned(t2) /\ Task(t2).raw = "garbage"

\* C5: once a call whose fetch or decode failed has returned, the cache holds
\* the white tile under its TileId, and every call made later for that TileId
\* returns the white tile without a network fetch.
C5_FailedTileStaysWhite ==
    /\ \A key \in failedKeys :
          /\ key \in DOMAIN g_tileCache
          /\ \A k \in DOMAIN g_tileCache[key] : g_tileCache[key][k] = 255
    /\ \A t \in TaskIds :
          (Returned(t) /\ Task(t).afterFailed)
              => /\ Task(t).nfetch = 0
                 /\ \A k \in DOMAIN Task(t).ret : Task(t).ret[k] = 255

\* C6: a lookup that finds the TileId in the cache ends the call at once: it
\* returns the cached bytes, makes no network fetch and no decode, and leaves
\* the cache as it was.
C6_HitReturnsCachedBytes ==
    [][\A t \in TaskIds :
          (/\ Task(t).pc = "find"
           /\ Task(t).key \in DOMAIN g_tileCache
           /\ Task(t)' # Task(t))
          => /\ Task(t)'.pc = "done"
             /\ Task(t)'.ret = g_tileCache[Task(t).key]
             /\ Task(t)'.nfetch = 0
             /\ Task(t)'.raw = "none"
             /\ g_tileCache' = g_tileCache
             /\ netFetches' = netFetches]_vars

\* A call returned from a cache hit.
C6_Witness ==
    \E t \in TaskIds : Returned(t) /\ Task(t).sawCached /\ Task(t).nfetch = 0

\* C7: of two CompositeMap calls with identical arguments made one after the
\* other, the second returns the same bytes as the first and makes no network
\* fetch, whatever the fetches of the first call returned.
C7_SecondCallIdentical ==
    \A i, j \in DOMAIN history :
        (i < j /\ history[i].req = history[j].req)
            => /\ history[j].raster = history[i].raster
               /\ history[j].fetches = 0

\* The same request was composited twice; the first call fetched its tiles,
\* one of them successfully and one not.
C7_Witness ==
    \E i, j \in DOMAIN history :
        /\ i < j /\ history[i].req = history[j].req
        /\ history[i].fetches >= 2
        /\ \E k \in DOMAIN history[i].raster : history[i].raster[k] # 255
        /\ \E key \in failedKeys : key.z = history[i].req.zoom

\* Every tile task of the call of caller c has returned.
AllTasksReturned(c) == \A k \in DOMAIN futures[c] : futures[c][k].pc = "done"

WritersOfByte(req, d0) ==
    { x \in UNION { {idx} \X WritesOfIndex(req, idx) : idx \in 0..(NumTasks(req) - 1) } :
        d0 - x[2][1] \in 0..3 }

\* C10: the byte sets two different tiles of a call write are disjoint, and
\* the raster the call returns is, byte for byte, the source byte of the one
\* tile placed there, or 255 where no tile is placed: a function of the
\* request and of the tile contents alone, whatever order the tasks completed in.
C10_RasterIndependentOfOrder ==
    \A c \in Callers :
        call[c].pc # "idle" =>
            LET req == call[c].req
            IN  /\ GridComputed(c) =>
                      \A i, j \in 0..(NumTasks(req) - 1) :
                          i # j => DestBytes(WritesOfIndex(req, i))
                                     \cap DestBytes(WritesOfIndex(req, j)) = {}
                /\ call[c].pc = "ret" =>
                      \A d \in DOMAIN call[c].finalImage :
                          LET ws == WritersOfByte(req, d - 1)
                          IN  IF ws = {} THEN call[c].finalImage[d] = 255
                              ELSE \A x \in ws :
                                     call[c].finalImage[d] =
                                       futures[c][x[1] + 1].ret[x[2][2] + (d - 1 - x[2][1]) + 1]

\* In a call whose grid has two tiles that both cover raster pixels, the second
\* task has returned before the first, with different contents to come.
C10_Witness ==
    \E c \in Callers :
        /\ call[c].pc = "get" /\ call[c].idx = 0
        /\ Len(futures[c]) >= 2
        /\ WritesOfIndex(call[c].req, 0) # {}
        /\ WritesOfIndex(call[c].req, 1) # {}
        /\ futures[c][2].pc = "done" /\ futures[c][2].raw = "png"
        /\ futures[c][1].pc = "download"

\* Tile task t is blocked in DownloadURL.
Downloading(t) == t \in TaskIds /\ Task(t).pc = "download"

\* C8: if every download eventually returns (with the picture, with nullptr or
\* with bytes that do not decode), every CompositeMap call that has begun
\* eventually returns; and if a download of a call never returns, that call
\* never returns.
C8_CompositeReturnsIffFetchesReturn ==
    /\ (\A t \in LiveTasks : []<>(~Downloading(t)))
          => ((call[1].pc # "idle") ~> (call[1].pc = "idle"))
    /\ \A t \in LiveTasks : (<>[]Downloading(t)) => <>[](call[1].pc # "idle")

\* A first call has returned although a tile of it failed, and a second call
\* is blocked in get() on a tile task whose download has not returned.
C8_Witness ==
    /\ Len(history) = 1 /\ history[1].fetches >= 1 /\ failedKeys # {}
    /\ call[1].pc = "get"
    /\ Downloading(<<1, call[1].idx + 1>>)

\* C11 as stated: the tile at grid position (tx, ty) is placed at
\* tx * tileSize - (topLeftX mod tileSize), the remainder being that of floor
\* division, so that source pixel i of tile startTileX + tx lands on the raster
\* pixel holding global pixel (startTileX + tx) * tileSize + i; the same in y;
\* also for negative and fractional topLeft.
C11_OffsetsAlignWithGlobalPixels ==
    \A c \in Callers :
        call[c].pc # "idle" =>
            LET req == call[c].req
                g   == Geometry(req)
                ts  == req.tileSize
            IN  \A idx \in 0..(NumTasks(req) - 1) :
                    LET tx == GridTx(idx, g.numTilesX)
                        ty == GridTy(idx, g.numTilesX)
                    IN  /\ Offset(tx, g.topLeftX2, ts)
                             = FloorDiv(2 * tx * ts - (g.topLeftX2 % (2 * ts)), 2)
                        /\ Offset(ty, g.topLeftY2, ts)
                             = FloorDiv(2 * ty * ts - (g.topLeftY2 % (2 * ts)), 2)
                        /\ \A i \in 0..(ts - 1) :
                              /\ Offset(tx, g.topLeftX2, ts) + i
                                   = FloorDiv(2 * ((g.startTileX + tx) * ts + i)
                                                - g.topLeftX2, 2)
                              /\ Offset(ty, g.topLeftY2, ts) + i
                                   = FloorDiv(2 * ((g.startTileY + ty) * ts + i)
                                                - g.topLeftY2, 2)

\* pow(2.0, zoom): the number of tiles per axis at a zoom level.
TilesPerAxis(zoom) == 2 ^ zoom

\* C12 as stated: every TileId a call requests from the fetcher has tileX and
\* tileY in [0, 2^zoom - 1].
C12_TileIndicesInRange ==
    \A t \in TaskIds :
        /\ Task(t).key.x \in 0..(TilesPerAxis(Task(t).key.z) - 1)
        /\ Task(t).key.y \in 0..(TilesPerAxis(Task(t).key.z) - 1)

\* The tile placed at (offsetX, offsetY) has no pixel inside the raster.
FullyOutside(offsetX, offsetY, finalWidth, finalHeight, tileSize) ==
    \/ offsetX + tileSize <= 0 \/ offsetX >= finalWidth
    \/ offsetY + tileSize <= 0 \/ offsetY >= finalHeight

\* The tile at futures[idx] of a request is placed fully outside the raster.
IndexFullyOutside(req, idx) ==
    LET g == Geometry(req)
    IN  FullyOutside(Offset(GridTx(idx, g.numTilesX), g.topLeftX2, req.tileSize),
                     Offset(GridTy(idx, g.numTilesX), g.topLeftY2, req.tileSize),
                     req.finalWidth, req.finalHeight, req.tileSize)

\* C13: every destination index a call writes while blitting lies in
\* [0, outputWidth * outputHeight * 4), all four bytes of the pixel included,
\* and a tile placed fully outside the viewport contributes no writes.  The
\* bytes written so far are checked in every state of a call, the memcpy calls
\* its grid determines once, when the grid is computed.
C13_WritesInsideRaster ==
    \A c \in Callers :
        call[c].pc # "idle" =>
            LET req == call[c].req
                n   == req.finalWidth * req.finalHeight * 4
            IN  /\ call[c].written \subseteq 0..(n - 1)
                /\ GridComputed(c) =>
                      \A idx \in 0..(NumTasks(req) - 1) :
                          /\ \A w \in WritesOfIndex(req, idx) :
                                w[1] >= 0 /\ w[1] + 3 <= n - 1
                          /\ IndexFullyOutside(req, idx)
                                => WritesOfIndex(req, idx) = {}

\* A call has blitted a tile that is clipped to a part of its pixels and has
\* passed over a tile placed fully outside the raster.
C13_Witness ==
    \E c \in Callers :
        /\ call[c].pc = "ret"
        /\ \E i, j \in 0..(call[c].idx - 1) :
              /\ IndexFullyOutside(call[c].req, j)
              /\ WritesOfIndex(call[c].req, i) # {}
              /\ Cardinality(WritesOfIndex(call[c].req, i))
                    < call[c].req.tileSize * call[c].req.tileSize
        /\ call[c].written # {}

\* C14: when topLeftX (resp. topLeftY) is an exact multiple of tileSize the
\* first tile column (resp. row) is placed at offset 0, and no pixel of it is
\* clipped at the left (resp. top) edge: source pixel (i, j) is written to
\* raster column i (resp. row j) wherever the other edges admit it.
C14_BoundaryOffsetZero ==
    \A c \in Callers :
        GridComputed(c) =>
            LET req == call[c].req
                g   == Geometry(req)
                ts  == req.tileSize
            IN  \A idx \in 0..(NumTasks(req) - 1) :
                    LET tx == GridTx(idx, g.numTilesX)
                        ty == GridTy(idx, g.numTilesX)
                        ox == Offset(tx, g.topLeftX2, ts)
                        oy == Offset(ty, g.topLeftY2, ts)
                    IN  /\ (g.topLeftX2 % (2 * ts) = 0 /\ tx = 0) =>
                              /\ ox = 0
                              /\ \A i, j \in 0..(ts - 1) :
                                    InRaster(i, oy + j, req.finalWidth, req.finalHeight)
                                      => << ((oy + j) * req.finalWidth + i) * 4,
                                            (j * ts + i) * 4 >> \in WritesOfIndex(req, idx)
                        /\ (g.topLeftY2 % (2 * ts) = 0 /\ ty = 0) =>
                              /\ oy = 0
                              /\ \A i, j \in 0..(ts - 1) :
                                    InRaster(ox + i, j, req.finalWidth, req.finalHeight)
                                      => << (j * req.finalWidth + (ox + i)) * 4,
                                            (j * ts + i) * 4 >> \in WritesOfIndex(req, idx)

\* A call whose topLeftX is a negative multiple of tileSize and whose topLeftY
\* is 0 has blitted its first tile.
C14_Witness ==
    \E c \in Callers :
        /\ call[c].pc # "idle" /\ call[c].idx >= 1
        /\ Geometry(call[c].req).topLeftX2 < 0
        /\ Geometry(call[c].req).topLeftX2 % (2 * call[c].req.tileSize) = 0
        /\ Geometry(call[c].req).topLeftY2 = 0
        /\ 0 \in call[c].written

\* The keys of the tile tasks of a call, in launch order.
RequestedKeys(c) == [k \in DOMAIN futures[c] |-> futures[c][k].key]

\* C15: when a call returns, the TileIds it has requested are
\* exactly the rectangle startTileX..endTileX by startTileY..endTileY at the
\* zoom of the request, startTile = floor(topLeft / tileSize) and endTile =
\* floor((topLeft + outputDimension) / tileSize), each requested exactly once.
C15_RequestsExactlyTheRectangle ==
    \A c \in Callers :
        call[c].pc = "ret" =>
            LET req  == call[c].req
                tlx  == req.centerX2 - req.finalWidth
                tly  == req.centerY2 - req.finalHeight
                sx   == FloorDiv(tlx, 2 * req.tileSize)
                sy   == FloorDiv(tly, 2 * req.tileSize)
                ex   == FloorDiv(tlx + 2 * req.finalWidth, 2 * req.tileSize)
                ey   == FloorDiv(tly + 2 * req.finalHeight, 2 * req.tileSize)
                keys == RequestedKeys(c)
            IN  /\ { keys[k] : k \in DOMAIN keys }
                     = { TileKey(req.zoom, x, y) : x \in sx..ex, y \in sy..ey }
                /\ Len(keys) = (ex - sx + 1) * (ey - sy + 1)
                /\ \A k1, k2 \in DOMAIN keys : keys[k1] = keys[k2] => k1 = k2

\* A call that launched the four tasks of a grid of 2 x 2 tiles returns.
C15_Witness ==
    \E c \in Callers :
        /\ call[c].pc = "ret"
        /\ Len(futures[c]) = 4
        /\ Geometry(call[c].req).numTilesX = 2
        /\ Geometry(call[c].req).numTilesY = 2

\* Every tile task of the call of caller c made a fetch that failed: the
\* download returned nullptr or bytes that do not decode.
AllFetchesFailed(c) ==
    \A k \in DOMAIN futures[c] :
        futures[c][k].nfetch = 1 /\ futures[c][k].raw \in {"null", "garbage"}

\* C16: a call all of whose tile fetches fail still completes: once its tasks
\* have returned nothing blocks the compositing loop or the return, no blit
\* reads past the end of a tile buffer, and the raster it returns has
\* outputWidth * outputHeight * 4 bytes, every one of them 255.
C16_AllFailedGivesWhiteRaster ==
    \A c \in Callers :
        (call[c].pc \in {"get", "ret"} /\ AllTasksReturned(c) /\ AllFetchesFailed(c)) =>
            /\ call[c].pc = "get" => ENABLED (\E ub \in UndefBytes : GetAndBlit(c, ub))
            /\ call[c].pc = "ret" => ENABLED ReturnComposite(c)
            /\ \A idx \in 0..(Len(futures[c]) - 1) :
                  \A w \in WritesOfIndex(call[c].req, idx) :
                      w[2] + 3 < Len(futures[c][idx + 1].ret)
            /\ IsWhite(call[c].finalImage,
                       call[c].req.finalWidth * call[c].req.finalHeight * 4)

\* A call with a grid of 2 x 2 tiles, each covering a part of the raster, is
\* about to return after all four fetches failed, in both ways.
C16_Witness ==
    \E c \in Callers :
        /\ call[c].pc = "ret" /\ Len(futures[c]) = 4
        /\ AllFetchesFailed(c)
        /\ \A idx \in 0..3 : WritesOfIndex(call[c].req, idx) # {}
        /\ \E k \in 1..4 : futures[c][k].raw = "null"
        /\ \E k \in 1..4 : futures[c][k].raw = "garbage"

\* C17: the raster of a call has outputWidth * outputHeight * 4 bytes from its
\* allocation to its return, whatever the tile grid, the outcomes of the
\* fetches and the contents of the cache.
C17_RasterSizeMatchesRequest ==
    /\ \A c \in Callers :
          call[c].pc # "idle" =>
              Len(call[c].finalImage)
                 = call[c].req.finalWidth * call[c].req.finalHeight * 4
    /\ \A i \in DOMAIN history :
          Len(history[i].raster)
             = history[i].req.finalWidth * history[i].req.finalHeight * 4

\* Two calls with rasters of different sizes and grids of different sizes have
\* returned, the first after fetching tiles with and without success, the
\* second served from the cache in part.
C17_Witness ==
    /\ Len(history) = 2
    /\ Len(history[1].raster) # Len(history[2].raster)
    /\ NumTasks(history[1].req) # NumTasks(history[2].req)
    /\ history[1].fetches >= 1 /\ failedKeys # {}
    /\ \E k \in DOMAIN history[1].raster : history[1].raster[k] # 255
    /\ history[2].fetches < NumTasks(history[2].req)

\* Task t is at a statement that accesses g_tileCache: the find of line 98 (and
\* the copy of line 100) or the emplace of line 124.
AccessingCache(t) == Task(t).pc \in {"find", "emplace"}

\* C18: a task that reads (find) or writes (emplace) g_tileCache holds
\* g_cacheMutex while it does, the mutex has one holder at most, so no two
\* tasks access the container at the same time, whether they belong to one
\* CompositeMap call or to concurrent ones; and the cache changes only in a
\* step of the task that holds the mutex.
C18_CacheAccessUnderMutex ==
    [][/\ \A t \in TaskIds : AccessingCache(t) => g_cacheMutex = t
       /\ \A t1, t2 \in TaskIds :
             (AccessingCache(t1) /\ AccessingCache(t2)) => t1 = t2
       /\ g_cacheMutex # NoTask =>
             (g_cacheMutex \in TaskIds /\ AccessingCache(g_cacheMutex))
       /\ g_tileCache' # g_tileCache =>
             \E t \in TaskIds :
                 /\ g_cacheMutex = t
                 /\ Task(t).pc = "emplace"
                 /\ futures'[t[1]][t[2]].pc = "done"]_vars

\* A task of one call is inside its insert while a task of a concurrent call
\* and another task of its own call wait for the mutex.
C18_Witness ==
    \E t1, t2, t3 \in TaskIds :
        /\ Task(t1).pc = "emplace" /\ g_cacheMutex = t1
        /\ t2[1] # t1[1] /\ Task(t2).pc \in {"lock1", "lock2"}
        /\ t3[1] = t1[1] /\ t3 # t1 /\ Task(t3).pc \in {"lock1", "lock2"}

\* C19: the cache is append-only.  No step removes a TileId from g_tileCache;
\* the cache holds one buffer per TileId, the one of the first insert (an
\* insert of a TileId already present adds no entry); and in the step in which
\* a LoadAndDecodeTile(id) call returns, by either path, the cache holds an
\* entry for id.
C19_CacheAppendOnly ==
    [][/\ DOMAIN g_tileCache \subseteq DOMAIN g_tileCache'
       /\ Cardinality(DOMAIN g_tileCache') <= Cardinality(DOMAIN g_tileCache) + 1
       /\ \A t \in TaskIds :
             (/\ Task(t).pc # "done"
              /\ t[2] \in DOMAIN futures'[t[1]]
              /\ futures'[t[1]][t[2]].pc = "done")
             => /\ Task(t).key \in DOMAIN g_tileCache'
                /\ (Task(t).key \in DOMAIN g_tileCache
                       => DOMAIN g_tileCache' = DOMAIN g_tileCache)]_vars

\* The cache holds two tiles, and a call has returned from an insert that found
\* its TileId already present, with a buffer other than the cached one.
C19_Witness ==
    /\ Cardinality(DOMAIN g_tileCache) >= 2
    /\ \E t \in TaskIds :
          /\ Returned(t) /\ Task(t).nfetch = 1
          /\ Task(t).ret # g_tileCache[Task(t).key]

\* C20: a LoadAndDecodeTile call makes at most one DownloadURL call: none when
\* its lookup hits, exactly one when it misses, and no second one after a
\* download or a decode that failed; the fetches made for a TileId are as many
\* as the calls that missed it.
C20_AtMostOneFetchPerCall ==
    \A t \in TaskIds :
        /\ Task(t).nfetch \in {0, 1}
        /\ Task(t).pc \in {"lock1", "find"} => Task(t).nfetch = 0
        /\ Task(t).pc \in {"download", "lock2", "emplace"} => Task(t).nfetch = 1
        /\ Returned(t) =>
              /\ Task(t).sawCached => (Task(t).nfetch = 0 /\ Task(t).raw = "none")
              /\ ~Task(t).sawCached => Task(t).nfetch = 1
              /\ Task(t).raw \in {"null", "garbage"} => Task(t).nfetch = 1
        /\ Task(t).nfetch = 1 =>
              (Task(t).key \in DOMAIN netFetches /\ netFetches[Task(t).key] >= 1)

\* A call has returned after a download that failed, a call has returned
\* after a decode that failed, and a call has returned from a hit.
C20_Witness ==
    \E t1, t2, t3 \in TaskIds :
        /\ Returned(t1) /\ Task(t1).raw = "null" /\ Task(t1).nfetch = 1
        /\ Returned(t2) /\ Task(t2).raw = "garbage" /\ Task(t2).nfetch = 1
        /\ Returned(t3) /\ Task(t3).sawCached /\ Task(t3).nfetch = 0

\* C23: when a call waits for the result of a tile task (get(), line 169), or
\* has finished waiting, every tile task of its grid has been launched, each on
\* a thread of its own, so that all the fetches of the call can be in flight
\* at the same time.
C23_AllLaunchedBeforeWaiting ==
    \A c \in Callers :
        call[c].pc \in {"get", "ret"} =>
            LET g == Geometry(call[c].req)
            IN  /\ Len(futures[c]) = g.numTilesX * g.numTilesY
                /\ call[c].idx <= Len(futures[c])

\* A call with a grid of 2 x 2 tiles waits for its first tile while the fetches
\* of all four tiles are in flight.
C23_Witness ==
    \E c \in Callers :
        /\ call[c].pc = "get" /\ call[c].idx = 0
        /\ Len(futures[c]) = 4
        /\ \A k \in 1..4 : futures[c][k].pc = "download"

\* C25: when CompositeMap calls do not overlap (each returns before the next
\* begins), every TileId is fetched from the network at most once, over all the
\* requests made, whether its fetch succeeded or failed.
C25_SequentialFetchesAtMostOnce ==
    \A key \in DOMAIN netFetches : netFetches[key] <= 1

\* Two calls have returned whose grids share a tile; the first fetched its
\* tiles, one of them without success, and the second fetched fewer tiles than
\* its grid has.
C25_Witness ==
    /\ Len(history) = 2
    /\ history[1].req # history[2].req
    /\ \E i \in 0..(NumTasks(history[1].req) - 1) :
          \E j \in 0..(NumTasks(history[2].req) - 1) :
              TileOfIndex(history[1].req, i) = TileOfIndex(history[2].req, j)
    /\ history[1].fetches = NumTasks(history[1].req)
    /\ history[2].fetches < NumTasks(history[2].req)
    /\ failedKeys # {}

\* C26 as stated: in every interleaving, the buffer a returned
\* LoadAndDecodeTile(id) call handed back is the entry the cache holds for id,
\* also when two first calls for id both miss and their fetches end differently.
C26_ReturnedBufferIsCacheEntry ==
    \A t \in TaskIds :
        Returned(t) =>
            /\ CacheHas(g_tileCache, Task(t).key)
            /\ Task(t).ret = g_tileCache[Task(t).key]

\* A task in DownloadURL or in the decode (lines 109-120) holds no lock.
FetchingUnlocked(t) == Task(t).pc = "download" => g_cacheMutex # t

\* C30: no task holds g_cacheMutex while it is in the blocking fetch or the
\* decode: the holder of the mutex is always at its lookup or at its insert and
\* can finish it at once, whatever the fetches in flight do; a task that waits
\* for a free mutex can take it; and while a tile task has not returned some
\* step is possible (no deadlock).
C30_NoLockHeldDuringFetch ==
    /\ \A t \in TaskIds : FetchingUnlocked(t)
    /\ \A t \in TaskIds :
          g_cacheMutex = t =>
              /\ Task(t).pc \in {"find", "emplace"}
              /\ ENABLED (FindHit(t) \/ FindMiss(t) \/ EmplaceAndReturn(t))
    /\ \A t \in TaskIds :
          (Task(t).pc \in {"lock1", "lock2"} /\ g_cacheMutex = NoTask)
              => ENABLED (LockForFind(t) \/ LockForEmplace(t))
    /\ (\E t \in TaskIds : Task(t).pc # "done") => ENABLED TaskNext

\* The fetch of one tile is stalled in DownloadURL while the task of another
\* tile of the same call, launched after it, has looked up, fetched and
\* inserted its tile, and a task of a concurrent call holds the mutex.
C30_Witness ==
    \E t1, t2, t3 \in TaskIds :
        /\ t1[1] = t2[1] /\ t1[2] < t2[2] /\ t3[1] # t1[1]
        /\ Task(t1).pc = "download"
        /\ Returned(t2) /\ Task(t2).nfetch = 1
        /\ Task(t2).key \in DOMAIN g_tileCache
        /\ g_cacheMutex = t3

\* C29 as stated: every tile a call requests contributes at least one pixel
\* to the raster: no tile task is launched for a tile placed entirely outside
\* [0, outputWidth) x [0, outputHeight).
C29_EveryTileContributes ==
    \A c \in Callers :
        GridComputed(c) =>
            \A idx \in 0..(NumTasks(call[c].req) - 1) :
                /\ ~IndexFullyOutside(call[c].req, idx)
                /\ WritesOfIndex(call[c].req, idx) # {}

\* C29, amended: for topLeftX, topLeftY >= 0, a requested tile contributes no
\* pixel exactly when it lies in the last column of the grid and
\* topLeftX + outputWidth is an exact multiple of tileSize (the column is placed
\* at offset outputWidth), or in the first column and the fraction of topLeftX
\* within its tile exceeds tileSize - 1 (the column is placed at offset
\* -tileSize), or likewise in the last or first row.  Every other requested
\* tile contributes at least one pixel.
C29_OnlyBoundaryTilesContributeNothing ==
    \A c \in Callers :
        GridComputed(c) =>
            LET req == call[c].req
                g   == Geometry(req)
                ts  == req.tileSize
            IN  (g.topLeftX2 >= 0 /\ g.topLeftY2 >= 0) =>
                    \A idx \in 0..(NumTasks(req) - 1) :
                        LET tx     == GridTx(idx, g.numTilesX)
                            ty     == GridTy(idx, g.numTilesX)
                            lastX  == /\ tx = g.numTilesX - 1
                                      /\ (g.topLeftX2 + 2 * req.finalWidth) % (2 * ts) = 0
                            lastY  == /\ ty = g.numTilesY - 1
                                      /\ (g.topLeftY2 + 2 * req.finalHeight) % (2 * ts) = 0
                            firstX == tx = 0 /\ g.topLeftX2 % (2 * ts) > 2 * (ts - 1)
                            firstY == ty = 0 /\ g.topLeftY2 % (2 * ts) > 2 * (ts - 1)
                        IN  /\ (WritesOfIndex(req, idx) = {})
                                  <=> (lastX \/ lastY \/ firstX \/ firstY)
                            /\ lastX => Offset(tx, g.topLeftX2, ts) = req.finalWidth
                            /\ lastY => Offset(ty, g.topLeftY2, ts) = req.finalHeight
                            /\ firstX => Offset(tx, g.topLeftX2, ts) = 0 - ts
                            /\ firstY => Offset(ty, g.topLeftY2, ts) = 0 - ts

\* A call with topLeft >= 0 has fetched, with success, a first tile that is
\* placed at offset -tileSize, and returns with the raster written by the
\* other tile of its grid.
C29_Witness ==
    \E c \in Callers :
        /\ call[c].pc = "ret"
        /\ Geometry(call[c].req).topLeftX2 >= 0
        /\ Geometry(call[c].req).topLeftY2 >= 0
        /\ Len(futures[c]) = 2
        /\ WritesOfIndex(call[c].req, 0) = {}
        /\ futures[c][1].raw = "png"
        /\ call[c].written # {}

\* C27: every buffer LoadAndDecodeTile has returned and every buffer in the
\* cache has exactly tileSize * tileSize * 4 bytes, whatever the decoder
\* reported as the picture's width and height, so that the 4 bytes at every
\* source index (j * tileSize + i) * 4 the blit reads lie inside the buffer.
C27_BuffersHaveTileSizeBytes ==
    /\ \A t \in TaskIds :
          Task(t).pc = "done" =>
              Len(Task(t).ret) = Task(t).tileSize * Task(t).tileSize * 4
    /\ \A c \in Callers :
          (call[c].pc = "get" /\ FutureReady(futures[c][call[c].idx + 1])) =>
              /\ futures[c][call[c].idx + 1].key \in DOMAIN g_tileCache
                    => Len(g_tileCache[futures[c][call[c].idx + 1].key])
                         = call[c].req.tileSize * call[c].req.tileSize * 4
              /\ \A w \in WritesOfIndex(call[c].req, call[c].idx) :
                    w[2] + 3 < Len(futures[c][call[c].idx + 1].ret)

\* C28: when every tile of a call was fetched and decoded as the server's
\* tileSize x tileSize picture, every byte of the returned raster has been
\* written by the blit of some tile, also when topLeftX or topLeftY is
\* negative.
C28_RasterFullyCovered ==
    \A c \in Callers :
        call[c].pc = "ret" =>
            LET req == call[c].req
            IN  (\A k \in DOMAIN futures[c] :
                    futures[c][k].ret
                        = ServerImage(futures[c][k].key, req.tileSize, req.tileSize))
                => call[c].written
                     = 0..(req.finalWidth * req.finalHeight * 4 - 1)

\* The latitudes strictly between -85.05 and 85.05 degrees, in ticks: the
\* range in which the projection of lines 137-138 stays inside the map.
InMercatorRange(lat) == 0 - 63417877 < lat /\ lat < 63417877

\* C21: every CompositeMap call main makes, after any sequence of arrow-key,
\* drag, text-input and saved-location events, receives a centre latitude
\* strictly within (-85.05, 85.05) degrees.
C21_LatitudeArgumentInRange == InMercatorRange(viewport.invoked.centerLat)

\* The zoom of the latest CompositeMap call of main is in [1, 19].
ZoomArgumentInRange ==
    /\ viewport.invoked.zoom \in MinZoom..MaxZoom
    /\ viewport.zoom \in MinZoom..MaxZoom

\* A wheel step upward at zoom 19, or downward at zoom 1, leaves zoom as it is.
WheelAtLimitKeepsZoom ==
    (viewport.pc = "wheel" /\ viewport'.pc = "controls") =>
        /\ (viewport'.wheel > 0 /\ viewport.zoom = MaxZoom) =>
              (viewport'.zoom = MaxZoom /\ viewport'.invoked.zoom = MaxZoom)
        /\ (viewport'.wheel < 0 /\ viewport.zoom = MinZoom) =>
              (viewport'.zoom = MinZoom /\ viewport'.invoked.zoom = MinZoom)

\* C22: after any sequence of mouse-wheel and zoom-slider events, starting from
\* zoom 16, the zoom passed to every CompositeMap call is an integer in
\* [1, 19]; a wheel step at zoom 19 upward or at zoom 1 downward leaves zoom
\* unchanged.
C22_ZoomStaysInRange == [](ZoomArgumentInRange) /\ [][WheelAtLimitKeepsZoom]_vars

\* The wheel was scrolled upward in a frame that began at zoom 19, and
\* CompositeMap was called with zoom 19.
C22_Witness ==
    /\ viewport.pc = "controls"
    /\ viewport.wheel > 0
    /\ viewport.lastZoom = MaxZoom
    /\ viewport.zoom = MaxZoom
    /\ viewport.invoked.zoom = MaxZoom

C31_SeqTileIndexInsideBuffer ==
    \A c \in Callers :
        call[c].pc = "seqret" =>
            \A q \in call[c].copied :
                LET req == call[c].req
                    p   == SeqPixel(req, q[1], q[2])
                    idxTile == (p.pixelY * req.tileSize + p.pixelX) * 4
                IN  /\ p.pixelX \in 0..(req.tileSize - 1)
                    /\ p.pixelY \in 0..(req.tileSize - 1)
                    /\ idxTile >= 0
                    /\ idxTile + 3 < Len(call[c].tileImages[SeqTileOf(req, p)].img)

\* The parallel call's tile k was fetched with the outcome the sequential call
\* had for its tile k: both failed, or both decoded the same picture.
SameFetchOutcome(task, tile) ==
    /\ task.key = tile.key
    /\ (task.raw = "png") = (tile.raw = "png")
    /\ task.raw = "png" => task.ret = tile.img

\* C32: the sequential CompositeMap and the parallel one, called with the same
\* request and (the cache being empty) given the same outcome of every tile
\* fetch, request the same tiles and return byte-identical rasters, for
\* integer and for fractional topLeft.
C32_VariantsEquivalent ==
    \A c \in Callers :
        (call[c].pc = "ret" /\ Len(history) = 1) =>
            /\ Len(futures[c]) = Len(history[1].tiles)
            /\ \A k \in DOMAIN futures[c] : futures[c][k].key = history[1].tiles[k].key
            /\ (\A k \in DOMAIN futures[c] :
                    SameFetchOutcome(futures[c][k], history[1].tiles[k]))
                  => call[c].finalImage = history[1].raster

\* C33: at the end of every frame of main's loop, the texture on screen comes
\* from a CompositeMap call whose zoom is the current zoom and whose centre
\* latitude is the current one (to 1e-6 degrees, which is less than a tick).
C33_TextureMatchesView ==
    viewport.pc = "keys" =>
        /\ viewport.invoked.zoom = viewport.zoom
        /\ viewport.invoked.centerLat = viewport.mapCenterLat

\* |a - b|
AbsDiff(a, b) == IF a >= b THEN a - b ELSE b - a

\* One SmoothUpdateMap call: zoom moves by at most one level and only toward
\* targetZoom, and CompositeMap is called exactly when the latitude, the
\* longitude or the zoom moved.
SmoothCallMovesOneStep ==
    (viewport.pc = "smooth" /\ viewport'.pc = "drag") =>
        /\ AbsDiff(viewport'.zoom, viewport.zoom) <= 1
        /\ viewport'.zoom # viewport.zoom =>
              AbsDiff(viewport.targetZoom, viewport'.zoom)
                 < AbsDiff(viewport.targetZoom, viewport.zoom)
        /\ viewport'.called <=>
              \/ viewport'.mapCenterLat # viewport.mapCenterLat
              \/ viewport'.mapCenterLon # viewport.mapCenterLon
              \/ viewport'.zoom # viewport.zoom

\* The view has reached the targets: zoom is targetZoom, the centre is within
\* 1e-6 degrees of the target, and the latest SmoothUpdateMap call did not call
\* CompositeMap.
SmoothSettled ==
    /\ viewport.zoom = viewport.targetZoom
    /\ AbsDiff(viewport.mapCenterLat, viewport.targetLat) <= LerpEpsilon
    /\ AbsDiff(viewport.mapCenterLon, viewport.targetLon) <= LerpEpsilon
    /\ ~viewport.called

\* C34: each SmoothUpdateMap call moves zoom by at most one level and only
\* toward targetZoom, and calls CompositeMap if and only if latitude, longitude
\* or zoom moved in that call; once the targets have stopped changing, after
\* finitely many frames zoom equals targetZoom, the centre is within 1e-6
\* degrees of the target and no further CompositeMap calls are made.
C34_SmoothUpdateConverges ==
    /\ [][SmoothCallMovesOneStep]_vars
    /\ <>[]SmoothSettled

\* The targets were changed, the view has moved away from where it started and
\* has reached them, and the latest SmoothUpdateMap call made no CompositeMap
\* call.
C34_Witness ==
    /\ viewport.pc = "drag"
    /\ viewport.retargets > 0
    /\ viewport.zoom # InitialZoom
    /\ SmoothSettled

====
